---- MODULE Spec2Model ----
(***************************************************************************)
(* Model of the savings server (src/unnamed/part_000): loadData, the      *)
(* startup barrier of startServer, GET /api/devices and GET /api/savings. *)
(*                                                                         *)
(* Conventions.                                                            *)
(*  - A JavaScript number is a record [k, v]: k = "fin" with v the value  *)
(*    in thousandths (so 0.5 is v = 500 and the integer 1 is v = 1000),   *)
(*    k = "inf" with v = 1 or -1 for +/-Infinity, k = "nan" for NaN.      *)
(*  - A numeric CSV field or a deviceId query parameter is a sequence of  *)
(*    one-character strings, parsed as parseInt / parseFloat parse it.    *)
(*    The enumerated inputs carry no fraction or exponent syntax.         *)
(*  - A timestamp text is a record [fmt, wall, off]: fmt is the syntax    *)
(*    family of the text, wall the wall-clock reading written in it (in   *)
(*    minutes since 2023-01-01 00:00) and off the UTC offset written in   *)
(*    it (minutes; used only when fmt = "iso_offset").  An instant is a   *)
(*    number of minutes since 2023-01-01T00:00Z.  The calendar is 2023.   *)
(*  - Names, timezone ids and timestamps are enumerated without           *)
(*    surrounding whitespace or quotes, so trimming leaves them as is.    *)
(***************************************************************************)
EXTENDS Integers, Sequences, FiniteSets, TLC

(***************************************************************************)
(* Bounds of the model.                                                    *)
(***************************************************************************)
MaxDevices == 2
MaxSavings == 2

(***************************************************************************)
(* JavaScript numbers.                                                     *)
(***************************************************************************)
Fin(n) == [k |-> "fin", v |-> n * 1000]
Inf(s) == [k |-> "inf", v |-> s]
NaN == [k |-> "nan", v |-> 0]

\* a === b on numbers: NaN equals nothing, itself included
StrictEq(a, b) == a.k # "nan" /\ b.k # "nan" /\ a = b

\* a + b
JsAdd(a, b) ==
    CASE a.k = "nan" \/ b.k = "nan" -> NaN
      [] a.k = "inf" /\ b.k = "inf" -> IF a.v = b.v THEN a ELSE NaN
      [] a.k = "inf" -> a
      [] b.k = "inf" -> b
      [] OTHER -> [k |-> "fin", v |-> a.v + b.v]

\* x || 0 on a number: 0 and NaN are falsy
OrZero(x) == IF x.k = "nan" \/ (x.k = "fin" /\ x.v = 0) THEN Fin(0) ELSE x

\* the division left out
DivThousand_Omitted(x) == x

\* x / 1000 (exact on the values the model reaches: v is a multiple of 1000)
DivThousand(x) == IF x.k = "fin" THEN [k |-> "fin", v |-> x.v \div 1000] ELSE x

(***************************************************************************)
(* Text fields: sequences of characters.                                   *)
(***************************************************************************)
DigitChars == {"0", "1", "2", "3", "4", "5", "6", "7", "8", "9"}

DigitVal(c) ==
    CASE c = "0" -> 0 [] c = "1" -> 1 [] c = "2" -> 2 [] c = "3" -> 3
      [] c = "4" -> 4 [] c = "5" -> 5 [] c = "6" -> 6 [] c = "7" -> 7
      [] c = "8" -> 8 [] c = "9" -> 9

IsSpace(c) == c = " "

RECURSIVE TrimLeft(_)
TrimLeft(t) == IF t # <<>> /\ IsSpace(Head(t)) THEN TrimLeft(Tail(t)) ELSE t

RECURSIVE TrimRight(_)
TrimRight(t) ==
    IF t # <<>> /\ IsSpace(t[Len(t)])
    THEN TrimRight(SubSeq(t, 1, Len(t) - 1))
    ELSE t

\* value.trim()
Trim(t) == TrimRight(TrimLeft(t))

\* value.replace(/^"|"$/g, ""): drops one leading and one trailing quote
StripQuotes(t) ==
    LET a == IF t # <<>> /\ Head(t) = "\"" THEN Tail(t) ELSE t
    IN  IF a # <<>> /\ a[Len(a)] = "\"" THEN SubSeq(a, 1, Len(a) - 1) ELSE a

\* the transform both parses apply to a field first
CleanField(t) == StripQuotes(Trim(t))

\* the value of the longest prefix of decimal digits, acc the value so far
RECURSIVE DigitsValue(_, _)
DigitsValue(t, acc) ==
    IF t # <<>> /\ Head(t) \in DigitChars
    THEN DigitsValue(Tail(t), acc * 10 + DigitVal(Head(t)))
    ELSE acc

HasPrefix(t, p) == Len(t) >= Len(p) /\ SubSeq(t, 1, Len(p)) = p

InfinityText == <<"I", "n", "f", "i", "n", "i", "t", "y">>

\* parseInt(text): leading blanks, a sign, then digits up to the first other
\* character; NaN when no digit is found
ParseInt(text) ==
    LET t == TrimLeft(text)
        neg == t # <<>> /\ Head(t) = "-"
        body == IF t # <<>> /\ Head(t) \in {"-", "+"} THEN Tail(t) ELSE t
    IN  IF body # <<>> /\ Head(body) \in DigitChars
        THEN Fin(IF neg THEN 0 - DigitsValue(body, 0) ELSE DigitsValue(body, 0))
        ELSE NaN

\* parseFloat(text): as parseInt, and the literal Infinity is a number
ParseFloat(text) ==
    LET t == TrimLeft(text)
        neg == t # <<>> /\ Head(t) = "-"
        body == IF t # <<>> /\ Head(t) \in {"-", "+"} THEN Tail(t) ELSE t
    IN  IF HasPrefix(body, InfinityText)
        THEN Inf(IF neg THEN 0 - 1 ELSE 1)
        ELSE ParseInt(text)

(***************************************************************************)
(* Calendar, zones and moments.                                            *)
(***************************************************************************)
\* days of 2023 before the first of each month; entry 13 closes December
DaysBefore == <<0, 31, 59, 90, 120, 151, 181, 212, 243, 273, 304, 334, 365>>

\* wall-clock minutes since 2023-01-01 00:00 of month mo, day d, h:mi
Wall(mo, d, h, mi) == ((DaysBefore[mo] + d - 1) * 24 + h) * 60 + mi

MonthStartWall(m) == DaysBefore[m] * 24 * 60

\* the month of 2023 a wall-clock reading lies in
MonthOfWall(w) ==
    CHOOSE m \in 1..12 : MonthStartWall(m) <= w /\ w < MonthStartWall(m + 1)

MonthNames ==
    <<"2023-01", "2023-02", "2023-03", "2023-04", "2023-05", "2023-06",
      "2023-07", "2023-08", "2023-09", "2023-10", "2023-11", "2023-12">>

\* the zones moment-timezone knows, with their UTC offset in minutes
ZoneOffset == [z \in {"UTC", "Asia/Kolkata"} |->
                 IF z = "Asia/Kolkata" THEN 330 ELSE 0]

KnownZone(name) == name \in DOMAIN ZoneOffset

\* a moment: validity, instant, and the offset of the zone it displays in
Moment(t, off) == [valid |-> TRUE, t |-> t, off |-> off]
InvalidMoment == [valid |-> FALSE, t |-> 0, off |-> 0]

\* moment(text, moment.ISO_8601, true): ISO syntax only; an offset written
\* in the text fixes the instant, otherwise the reading is local time; the
\* result displays in local time
MomentIsoStrict(ts, localOff) ==
    CASE ts.fmt = "iso_offset" -> Moment(ts.wall - ts.off, localOff)
      [] ts.fmt = "iso_naive" -> Moment(ts.wall - localOff, localOff)
      [] OTHER -> InvalidMoment

\* moment(text): ISO first, then whatever new Date(text) reads, as local time
MomentLenient(ts, localOff) ==
    CASE ts.fmt = "iso_offset" -> Moment(ts.wall - ts.off, localOff)
      [] ts.fmt = "iso_naive" -> Moment(ts.wall - localOff, localOff)
      [] ts.fmt = "lenient" -> Moment(ts.wall - localOff, localOff)
      [] OTHER -> InvalidMoment

\* moment.utc(text): as moment(text), with the reading taken as UTC
MomentUtc(ts) ==
    CASE ts.fmt = "iso_offset" -> Moment(ts.wall - ts.off, 0)
      [] ts.fmt = "iso_naive" -> Moment(ts.wall, 0)
      [] ts.fmt = "lenient" -> Moment(ts.wall, 0)
      [] OTHER -> InvalidMoment

\* moment.tz(text, zone): moment.utc(text), shifted to the zone when the text
\* was parsed into fields and wrote no offset; displays in the zone
MomentTz(ts, zone) ==
    CASE ts.fmt = "iso_offset" -> Moment(ts.wall - ts.off, ZoneOffset[zone])
      [] ts.fmt = "iso_naive" ->
             Moment(ts.wall - ZoneOffset[zone], ZoneOffset[zone])
      [] ts.fmt = "lenient" -> Moment(ts.wall, ZoneOffset[zone])
      [] OTHER -> InvalidMoment

\* m.isBetween(from, to, null, "[]")
IsBetween(m, from, to) ==
    m.valid /\ from.valid /\ to.valid /\ from.t <= m.t /\ m.t <= to.t

\* m.isSameOrBefore(other)
IsSameOrBefore(m, other) == m.valid /\ other.valid /\ m.t <= other.t

\* m.startOf("month"), in the zone m displays in
StartOfMonth(m) ==
    IF m.valid
    THEN Moment(MonthStartWall(MonthOfWall(m.t + m.off)) - m.off, m.off)
    ELSE m

\* m.format("YYYY-MM")
FormatYearMonth(m) ==
    IF m.valid THEN MonthNames[MonthOfWall(m.t + m.off)] ELSE "Invalid date"

(***************************************************************************)
(* The inputs: CSV rows as the parser hands them to the transform, and     *)
(* query strings.                                                          *)
(***************************************************************************)
IsoOffset(w, off) == [fmt |-> "iso_offset", wall |-> w, off |-> off]
IsoNaive(w) == [fmt |-> "iso_naive", wall |-> w, off |-> 0]
LenientText(w) == [fmt |-> "lenient", wall |-> w, off |-> 0]
NotADate == [fmt |-> "invalid", wall |-> 0, off |-> 0]
NoParam == [fmt |-> "missing", wall |-> 0, off |-> 0]

\* rows of devices.csv: id, name, timezone
DeviceRows ==
    { [id |-> <<"1">>, name |-> "A", timezone |-> "Asia/Kolkata"],
      [id |-> <<"1">>, name |-> "B", timezone |-> "UTC"],
      [id |-> <<"x">>, name |-> "C", timezone |-> "Mars/Phobos"] }

\* rows of device-saving.csv: device_id, device_timestamp, carbon_saved,
\* fueld_saved
SavingsRows ==
    { \* 2023-06-15T10:00:00+05:30
      [device_id |-> <<"1">>,
       device_timestamp |-> IsoOffset(Wall(6, 15, 10, 0), 330),
       carbon_saved |-> <<"5", "0", "0">>, fueld_saved |-> <<"1", "0">>],
      \* 2023-07-01T01:00 (no offset)
      [device_id |-> <<"1">>,
       device_timestamp |-> IsoNaive(Wall(7, 1, 1, 0)),
       carbon_saved |-> <<"-", "5">>, fueld_saved |-> InfinityText],
      \* 2023-07-01T01:00:00+05:30
      [device_id |-> <<"1">>,
       device_timestamp |-> IsoOffset(Wall(7, 1, 1, 0), 330),
       carbon_saved |-> <<"3", "0", "0">>, fueld_saved |-> <<"a", "b", "c">>],
      \* 2023/06/20 12:00, with a quoted and padded carbon field
      [device_id |-> <<"1">>,
       device_timestamp |-> LenientText(Wall(6, 20, 12, 0)),
       carbon_saved |-> <<" ", "\"", "2", "5", "0", "\"">>,
       fueld_saved |-> <<"7">>],
      \* not-a-date
      [device_id |-> <<"1">>,
       device_timestamp |-> NotADate,
       carbon_saved |-> <<"4", "0">>, fueld_saved |-> <<"3">>],
      \* a record of another device
      [device_id |-> <<"2">>,
       device_timestamp |-> IsoOffset(Wall(6, 15, 10, 0), 330),
       carbon_saved |-> <<"1", "0", "0">>, fueld_saved |-> <<"1">>] }

SeqsUpTo(S, n) == UNION { [1..k -> S] : k \in 0..n }

NoFile == [ok |-> FALSE, rows |-> <<>>]
File(rows) == [ok |-> TRUE, rows |-> rows]

\* what the data directory may hold at startup
FileSystems ==
    { [dir |-> FALSE, devicesCsv |-> NoFile, savingsCsv |-> NoFile] }
    \cup
    { [dir |-> TRUE, devicesCsv |-> d, savingsCsv |-> s] :
        d \in {NoFile} \cup { File(r) : r \in SeqsUpTo(DeviceRows, MaxDevices) },
        s \in {NoFile} \cup { File(r) : r \in SeqsUpTo(SavingsRows, MaxSavings) } }

\* deviceId as sent: absent or empty, "1", "2", "x"
DeviceIdParams == { <<>>, <<"1">>, <<"2">>, <<"x">> }

\* startDateTime as sent: absent, 2023-06-01T00:00, 2023-06-15T10:00, garbage
StartParams ==
    { NoParam, IsoNaive(Wall(6, 1, 0, 0)), IsoNaive(Wall(6, 15, 10, 0)),
      NotADate }

\* endDateTime as sent: absent, 2023-06-30T23:59, 2023-07-01T23:59, garbage
EndParams ==
    { NoParam, IsoNaive(Wall(6, 30, 23, 59)), IsoNaive(Wall(7, 1, 23, 59)),
      NotADate }

Queries ==
    [deviceId : DeviceIdParams, startDateTime : StartParams,
     endDateTime : EndParams]

NoQuery == [deviceId |-> <<>>, startDateTime |-> NoParam, endDateTime |-> NoParam]

(***************************************************************************)
(* loadData: the two transforms.                                           *)
(***************************************************************************)
\* one row of devices.csv as stored
DeviceOfRow(row) ==
    [id |-> ParseInt(CleanField(row.id)),
     name |-> row.name,
     timezone |-> IF KnownZone(row.timezone) THEN row.timezone
                  ELSE "Asia/Kolkata"]

\* a carbon_saved or fueld_saved field as stored
SavedOfField(text) == OrZero(ParseFloat(CleanField(text)))

\* one row of device-saving.csv as stored
SavingOfRow(row) ==
    [device_id |-> ParseInt(CleanField(row.device_id)),
     device_timestamp |-> row.device_timestamp,
     carbon_saved |-> SavedOfField(row.carbon_saved),
     fueld_saved |-> SavedOfField(row.fueld_saved)]

\* results.data.map(...) of the devices parse
DevicesOfRows(rows) == [i \in 1..Len(rows) |-> DeviceOfRow(rows[i])]

\* results.data of the savings parse
SavingsOfRows(rows) == [i \in 1..Len(rows) |-> SavingOfRow(rows[i])]

(***************************************************************************)
(* GET /api/savings, step by step.                                         *)
(***************************************************************************)
\* only deviceId is looked at
MissingParam_DeviceIdOnly(q) == q.deviceId = <<>>

\* !deviceId || !startDateTime || !endDateTime
MissingParam(q) ==
    q.deviceId = <<>> \/ q.startDateTime.fmt = "missing"
        \/ q.endDateTime.fmt = "missing"

\* the last matching element instead of the first
FindDevice_Last(devs, id) ==
    IF \E i \in 1..Len(devs) : StrictEq(devs[i].id, id)
    THEN CHOOSE i \in 1..Len(devs) :
            /\ StrictEq(devs[i].id, id)
            /\ \A j \in (i + 1)..Len(devs) : ~StrictEq(devs[j].id, id)
    ELSE 0

\* devices.find((d) => d.id === id): the index of the element found, 0 when
\* find returns undefined
FindDevice(devs, id) ==
    IF \E i \in 1..Len(devs) : StrictEq(devs[i].id, id)
    THEN CHOOSE i \in 1..Len(devs) :
            /\ StrictEq(devs[i].id, id)
            /\ \A j \in 1..(i - 1) : ~StrictEq(devs[j].id, id)
    ELSE 0

\* the itemDate the range filter settles on: strict ISO, else the general
\* parse, else the UTC fallback
ItemDate(ts, localOff) ==
    LET iso == MomentIsoStrict(ts, localOff)
        gen == IF iso.valid THEN iso ELSE MomentLenient(ts, localOff)
    IN  IF gen.valid THEN gen ELSE MomentUtc(ts)

\* the predicate of savingsData.filter
InRange(item, id, start, end, localOff) ==
    /\ StrictEq(item.device_id, id)
    /\ IsBetween(ItemDate(item.device_timestamp, localOff), start, end)

\* the object the map builds from a kept item
WithTimestamp(item) ==
    [device_id |-> item.device_id,
     device_timestamp |-> item.device_timestamp,
     carbon_saved |-> item.carbon_saved,
     fueld_saved |-> item.fueld_saved,
     timestamp |-> item.device_timestamp]

\* filteredData
FilteredData(savs, id, start, end, localOff) ==
    LET kept == SelectSeq(savs, LAMBDA it : InRange(it, id, start, end, localOff))
    IN  [i \in 1..Len(kept) |-> WithTimestamp(kept[i])]

\* items.reduce((sum, item) => sum + (item.carbon_saved || 0), 0)
RECURSIVE SumCarbon(_)
SumCarbon(items) ==
    IF items = <<>> THEN Fin(0)
    ELSE JsAdd(SumCarbon(SubSeq(items, 1, Len(items) - 1)),
               OrZero(items[Len(items)].carbon_saved))

\* items.reduce((sum, item) => sum + (item.fueld_saved || 0), 0)
RECURSIVE SumFuel(_)
SumFuel(items) ==
    IF items = <<>> THEN Fin(0)
    ELSE JsAdd(SumFuel(SubSeq(items, 1, Len(items) - 1)),
               OrZero(items[Len(items)].fueld_saved))

\* the lastMonthData callback assigns to its const itemDate when the strict
\* ISO parse of an item is invalid: a TypeError
MonthFilterThrows(filtered, localOff) ==
    \E i \in 1..Len(filtered) :
        ~MomentIsoStrict(filtered[i].device_timestamp, localOff).valid

\* the predicate of the lastMonthData filter on an item it does not throw on;
\* startOf("month") moves itemDate itself, so it is the month start that is
\* compared with end
InLastMonth(item, lastMonthStr, end, localOff) ==
    LET itemDate == StartOfMonth(MomentIsoStrict(item.device_timestamp, localOff))
    IN  /\ FormatYearMonth(itemDate) = lastMonthStr
        /\ IsSameOrBefore(itemDate, end)

LastMonthData(filtered, lastMonthStr, end, localOff) ==
    SelectSeq(filtered, LAMBDA it : InLastMonth(it, lastMonthStr, end, localOff))

\* a response is the status and the object handed to res.json
ErrorResponse(status, msg) == [status |-> status, body |-> [error |-> msg]]

\* what Express answers when the handler throws
ThrownResponse == [status |-> 500, body |-> [thrown |-> "TypeError"]]

\* the 200 branch, from the range filter to res.json
SavingsOk(q, device, savs, start, end, localOff) ==
    LET id == ParseInt(q.deviceId)
        filteredData == FilteredData(savs, id, start, end, localOff)
        totalCarbon == DivThousand(SumCarbon(filteredData))
        totalFuel == SumFuel(filteredData)
        lastMonthStr ==
            FormatYearMonth(StartOfMonth(MomentTz(q.endDateTime, device.timezone)))
        lastMonthData == LastMonthData(filteredData, lastMonthStr, end, localOff)
        some == lastMonthData # <<>>
    IN  IF MonthFilterThrows(filteredData, localOff)
        THEN ThrownResponse
        ELSE [status |-> 200,
              body |->
                [data |-> filteredData,
                 totals |->
                    [totalCarbon |-> totalCarbon,
                     totalFuel |-> totalFuel,
                     monthlyCarbon |->
                        IF some THEN DivThousand(SumCarbon(lastMonthData))
                        ELSE Fin(0),
                     monthlyFuel |->
                        IF some THEN SumFuel(lastMonthData) ELSE Fin(0),
                     lastMonth |-> lastMonthStr]]]

\* the whole handler
SavingsResponse(q, devs, savs, localOff) ==
    IF MissingParam(q)
    THEN ErrorResponse(400,
             "deviceId, startDateTime, and endDateTime are required")
    ELSE LET at == FindDevice(devs, ParseInt(q.deviceId))
         IN  IF at = 0
             THEN ErrorResponse(404, "Device not found")
             ELSE LET device == devs[at]
                      start == MomentTz(q.startDateTime, device.timezone)
                      end == MomentTz(q.endDateTime, device.timezone)
                  IN  IF ~start.valid \/ ~end.valid
                      THEN ErrorResponse(400,
                               "Invalid startDateTime or endDateTime format")
                      ELSE SavingsOk(q, device, savs, start, end, localOff)

\* GET /api/devices
DevicesResponse(devs) == [status |-> 200, body |-> [list |-> devs]]

NoResponse == [status |-> 0, body |-> [none |-> TRUE]]

(***************************************************************************)
(* State.                                                                  *)
(***************************************************************************)
VARIABLES
    fs,           \* the data directory at startup
    serverZone,   \* the zone of the server process (moment's local zone)
    loadPc,       \* where startServer / loadData stands
    listening,    \* app.listen has been called
    devicesCsv,   \* loadData's local devicesCsv
    savingsCsv,   \* loadData's local savingsCsv
    devices,      \* the module-level devices
    savingsData,  \* the module-level savingsData
    req,          \* the request being served
    device,       \* the savings handler's local device for that request
    res           \* the response to that request, once the handler has run

vars ==
    <<fs, serverZone, loadPc, listening, devicesCsv, savingsCsv, devices,
      savingsData, req, device, res>>

NoDevice == [id |-> NaN, name |-> "", timezone |-> ""]

Init ==
    /\ fs \in FileSystems
    /\ serverZone \in DOMAIN ZoneOffset
    /\ loadPc = "start"
    /\ listening = FALSE
    /\ devicesCsv = <<>>
    /\ savingsCsv = <<>>
    /\ devices = <<>>
    /\ savingsData = <<>>
    /\ req = [kind |-> "none", q |-> NoQuery]
    /\ device = NoDevice
    /\ res = NoResponse

\* a step of loadData leaves the request side alone
LoadFrame == UNCHANGED <<fs, serverZone, listening, req, device, res>>

\* await fs.access(dataDir); a rejection lands in the catch block, which logs
\* and lets loadData return
AccessDataDir ==
    /\ loadPc = "start"
    /\ loadPc' = IF fs.dir THEN "accessed" ELSE "returned"
    /\ UNCHANGED <<devicesCsv, savingsCsv, devices, savingsData>>
    /\ LoadFrame

\* devices.csv parsed as soon as it is read, before device-saving.csv is read
ReadDevicesCsv_ParsesAtOnce ==
    /\ loadPc = "accessed"
    /\ IF fs.devicesCsv.ok
       THEN /\ devicesCsv' = fs.devicesCsv.rows
            /\ devices' = DevicesOfRows(fs.devicesCsv.rows)
            /\ loadPc' = "readDevices"
       ELSE /\ devicesCsv' = devicesCsv
            /\ devices' = devices
            /\ loadPc' = "returned"
    /\ UNCHANGED <<savingsCsv, savingsData>>
    /\ LoadFrame

\* devicesCsv = await fs.readFile(devices.csv)
ReadDevicesCsv ==
    /\ loadPc = "accessed"
    /\ IF fs.devicesCsv.ok
       THEN /\ devicesCsv' = fs.devicesCsv.rows
            /\ loadPc' = "readDevices"
       ELSE /\ devicesCsv' = devicesCsv
            /\ loadPc' = "returned"
    /\ UNCHANGED <<savingsCsv, devices, savingsData>>
    /\ LoadFrame

\* savingsCsv = await fs.readFile(device-saving.csv)
ReadSavingsCsv ==
    /\ loadPc = "readDevices"
    /\ IF fs.savingsCsv.ok
       THEN /\ savingsCsv' = fs.savingsCsv.rows
            /\ loadPc' = "readSavings"
       ELSE /\ savingsCsv' = savingsCsv
            /\ loadPc' = "returned"
    /\ UNCHANGED <<devicesCsv, devices, savingsData>>
    /\ LoadFrame

\* the two Papa.parse calls, synchronous, one after the other
ParseCsv ==
    /\ loadPc = "readSavings"
    /\ devices' = DevicesOfRows(devicesCsv)
    /\ savingsData' = SavingsOfRows(savingsCsv)
    /\ loadPc' = "returned"
    /\ UNCHANGED <<devicesCsv, savingsCsv>>
    /\ LoadFrame

\* loadData() called without await: listen follows its first suspension
CanListen_WithoutAwait == loadPc = "start"

\* startServer awaits loadData before it calls app.listen
CanListen == loadPc = "returned"

Listen ==
    /\ ~listening
    /\ CanListen
    /\ listening' = TRUE
    /\ UNCHANGED <<fs, serverZone, loadPc, devicesCsv, savingsCsv, devices,
                   savingsData, req, device, res>>

\* a request reaches the listening server
Arrive ==
    /\ listening
    /\ req.kind = "none"
    /\ \/ req' = [kind |-> "devices", q |-> NoQuery]
       \/ \E q \in Queries : req' = [kind |-> "savings", q |-> q]
    /\ UNCHANGED <<fs, serverZone, loadPc, listening, devicesCsv, savingsCsv,
                   devices, savingsData, device, res>>

\* GET /api/devices
GetDevices ==
    /\ req.kind = "devices"
    /\ res = NoResponse
    /\ res' = DevicesResponse(devices)
    /\ UNCHANGED <<fs, serverZone, loadPc, listening, devicesCsv, savingsCsv,
                   devices, savingsData, req, device>>

\* the handler's local device: what devices.find returned, if it was called
DeviceLocal(q, devs) ==
    LET at == FindDevice(devs, ParseInt(q.deviceId))
    IN  IF MissingParam(q) \/ at = 0 THEN NoDevice ELSE devs[at]

\* GET /api/savings; the handler is synchronous, it runs to its response
GetSavings ==
    /\ req.kind = "savings"
    /\ res = NoResponse
    /\ device' = DeviceLocal(req.q, devices)
    /\ res' = SavingsResponse(req.q, devices, savingsData,
                              ZoneOffset[serverZone])
    /\ UNCHANGED <<fs, serverZone, loadPc, listening, devicesCsv, savingsCsv,
                   devices, savingsData, req>>

\* the response has gone out; the request and the handler's locals are gone
Finish ==
    /\ res # NoResponse
    /\ req' = [kind |-> "none", q |-> NoQuery]
    /\ device' = NoDevice
    /\ res' = NoResponse
    /\ UNCHANGED <<fs, serverZone, loadPc, listening, devicesCsv, savingsCsv,
                   devices, savingsData>>

Next ==
    \/ AccessDataDir
    \/ ReadDevicesCsv
    \/ ReadSavingsCsv
    \/ ParseCsv
    \/ Listen
    \/ Arrive
    \/ GetDevices
    \/ GetSavings
    \/ Finish

Spec == Init /\ [][Next]_vars

(***************************************************************************)
(* Vocabulary of the properties.                                           *)
(***************************************************************************)
\* the savings handler has answered the request in req
Served == req.kind = "savings" /\ res # NoResponse

Answered200 == Served /\ res.status = 200

\* the range of the served request, as instants in the found device's zone
RangeStart == MomentTz(req.q.startDateTime, device.timezone)
RangeEnd == MomentTz(req.q.endDateTime, device.timezone)

\* the instant a timestamp text denotes when a reading without an offset is
\* taken in the given zone
InstantInZone(ts, zone) ==
    IF ts.fmt = "iso_offset" THEN ts.wall - ts.off
    ELSE ts.wall - ZoneOffset[zone]

\* the calendar month, in the given zone, of an instant
MonthInZone(t, zone) == MonthOfWall(t + ZoneOffset[zone])

\* the plain sum of a sequence of numbers
RECURSIVE SumOf(_)
SumOf(nums) ==
    IF nums = <<>> THEN [k |-> "fin", v |-> 0]
    ELSE JsAdd(Head(nums), SumOf(Tail(nums)))

CarbonOf(items) == [i \in 1..Len(items) |-> items[i].carbon_saved]
FuelOf(items) == [i \in 1..Len(items) |-> items[i].fueld_saved]

\* x is y divided by 1000
IsThousandth(x, y) == x.k = y.k /\ (IF y.k = "fin" THEN x.v * 1000 = y.v ELSE x.v = y.v)

(***************************************************************************)
(* C1.  Every record a 200 response returns belongs to the queried device  *)
(* and its timestamp, a reading without an offset being taken in the       *)
(* device's zone, lies in [s, e].                                          *)
(***************************************************************************)
C1_ReturnedRecordsInRangeInDeviceZone ==
    Answered200 =>
        \A i \in 1..Len(res.body.data) :
            LET r == res.body.data[i]
                t == InstantInZone(r.device_timestamp, device.timezone)
            IN  /\ r.device_id = device.id
                /\ RangeStart.t <= t
                /\ t <= RangeEnd.t

\* the three documented error answers
DocumentedErrors ==
    { ErrorResponse(400, "deviceId, startDateTime, and endDateTime are required"),
      ErrorResponse(404, "Device not found"),
      ErrorResponse(400, "Invalid startDateTime or endDateTime format") }

(***************************************************************************)
(* C2.  Whatever the stored timestamps, the savings handler ends in the    *)
(* 200 body with data and the five totals or in one of the three           *)
(* documented error bodies, and no record with an unparseable timestamp is *)
(* in data.                                                                *)
(***************************************************************************)
C2_OnlyDocumentedOutcomes ==
    Served =>
        \/ res \in DocumentedErrors
        \/ /\ res.status = 200
           /\ DOMAIN res.body = {"data", "totals"}
           /\ DOMAIN res.body.totals =
                 {"totalCarbon", "totalFuel", "monthlyCarbon", "monthlyFuel",
                  "lastMonth"}
           /\ \A i \in 1..Len(res.body.data) :
                 res.body.data[i].device_timestamp.fmt # "invalid"

(***************************************************************************)
(* C3.  In a 200 response the monthly figures are the sums over exactly    *)
(* the returned records whose timestamp lies, in the device's zone, in the *)
(* calendar month of endDateTime and is not after endDateTime; they are 0  *)
(* when there is none; lastMonth names that month.                         *)
(***************************************************************************)
C3_MonthlyRollupInDeviceZone ==
    Answered200 =>
        LET zone == device.timezone
            endMonth == MonthInZone(RangeEnd.t, zone)
            inMonth ==
                SelectSeq(res.body.data,
                    LAMBDA r :
                        LET t == ItemDate(r.device_timestamp,
                                          ZoneOffset[serverZone]).t
                        IN  MonthInZone(t, zone) = endMonth /\ t <= RangeEnd.t)
            totals == res.body.totals
        IN  /\ totals.lastMonth = MonthNames[endMonth]
            /\ IsThousandth(totals.monthlyCarbon, SumOf(CarbonOf(inMonth)))
            /\ totals.monthlyFuel = SumOf(FuelOf(inMonth))

(***************************************************************************)
(* C4.  For a found device and a valid range, every stored record of the   *)
(* device whose timestamp is exactly s or exactly e is in the returned     *)
(* data.                                                                   *)
(***************************************************************************)
C4_BoundaryRecordsReturned ==
    (Served /\ device # NoDevice /\ RangeStart.valid /\ RangeEnd.valid
        /\ RangeStart.t <= RangeEnd.t) =>
        \A i \in 1..Len(savingsData) :
            LET r == savingsData[i]
                d == ItemDate(r.device_timestamp, ZoneOffset[serverZone])
            IN  (r.device_id = device.id /\ d.valid
                    /\ d.t \in {RangeStart.t, RangeEnd.t}) =>
                    /\ res.status = 200
                    /\ \E j \in 1..Len(res.body.data) :
                          res.body.data[j].device_timestamp = r.device_timestamp

(***************************************************************************)
(* C5.  In a 200 response totalCarbon is the sum of carbon_saved over the  *)
(* records in data divided by 1000 and totalFuel is the plain sum of       *)
(* fueld_saved over them; both are 0 when data is empty.                   *)
(***************************************************************************)
C5_TotalsAreSumsOverData ==
    Answered200 =>
        LET data == res.body.data
            totals == res.body.totals
        IN  /\ IsThousandth(totals.totalCarbon, SumOf(CarbonOf(data)))
            /\ totals.totalFuel = SumOf(FuelOf(data))
            /\ data = <<>> =>
                  /\ totals.totalCarbon = [k |-> "fin", v |-> 0]
                  /\ totals.totalFuel = [k |-> "fin", v |-> 0]

\* the example of the specification: one record, 0.5 tonnes, 10 litres
C5_Witness ==
    /\ Answered200
    /\ Len(res.body.data) = 1
    /\ res.body.totals.totalCarbon = [k |-> "fin", v |-> 500]
    /\ res.body.totals.totalFuel = [k |-> "fin", v |-> 10000]
    /\ res.body.totals.lastMonth = "2023-06"

(***************************************************************************)
(* C6.  The first failing check decides the answer: a missing parameter    *)
(* gives the 400 "required" body; else a deviceId matching no loaded       *)
(* device (a row with a non-numeric id matches no query) gives the 404     *)
(* body; else a start or end that does not parse gives the 400 "Invalid"   *)
(* body; a 200 is answered only when no check fails; an error response     *)
(* carries only the error.                                                 *)
(***************************************************************************)
C6_FirstFailingCheckDecides ==
    Served =>
        LET q == req.q
            missing ==
                \/ q.deviceId = <<>>
                \/ q.startDateTime = NoParam
                \/ q.endDateTime = NoParam
            matching ==
                { i \in 1..Len(devices) : devices[i].id.k = "fin"
                    /\ devices[i].id = ParseInt(q.deviceId) }
            unparseable ==
                \E i \in matching :
                    \/ ~MomentTz(q.startDateTime, devices[i].timezone).valid
                    \/ ~MomentTz(q.endDateTime, devices[i].timezone).valid
        IN  /\ CASE missing ->
                      res = ErrorResponse(400,
                          "deviceId, startDateTime, and endDateTime are required")
                 [] matching = {} ->
                      res = ErrorResponse(404, "Device not found")
                 [] unparseable ->
                      res = ErrorResponse(400,
                          "Invalid startDateTime or endDateTime format")
                 [] OTHER -> res.status \notin {400, 404}
            /\ res.status \in {400, 404} => DOMAIN res.body = {"error"}
            /\ res.status = 200 => device.id.k = "fin"

\* the third check fired: all parameters present, the device found
C6_Witness ==
    /\ Served
    /\ device # NoDevice
    /\ res = ErrorResponse(400, "Invalid startDateTime or endDateTime format")
    /\ \E i \in 1..Len(devices) : devices[i].id.k = "nan"

(***************************************************************************)
(* C7.  After load every stored carbon_saved and fueld_saved is a finite   *)
(* number >= 0, whatever text the columns held, and text that does not     *)
(* parse as a number is stored as 0.                                       *)
(***************************************************************************)
C7_StoredSavingsFiniteNonNegative ==
    \A i \in 1..Len(savingsData) :
        /\ savingsData[i].carbon_saved.k = "fin"
        /\ savingsData[i].carbon_saved.v >= 0
        /\ savingsData[i].fueld_saved.k = "fin"
        /\ savingsData[i].fueld_saved.v >= 0
        /\ ParseFloat(CleanField(savingsCsv[i].carbon_saved)) = NaN =>
              savingsData[i].carbon_saved = [k |-> "fin", v |-> 0]
        /\ ParseFloat(CleanField(savingsCsv[i].fueld_saved)) = NaN =>
              savingsData[i].fueld_saved = [k |-> "fin", v |-> 0]

\* the directory or one of the two files is missing at startup
LoadFails == ~fs.dir \/ ~fs.devicesCsv.ok \/ ~fs.savingsCsv.ok

(***************************************************************************)
(* C8.  When the data directory or either file is missing, both            *)
(* collections stay empty, loadData returns and the server can listen;     *)
(* GET /api/devices then answers an empty array and a GET /api/savings     *)
(* with all three parameters answers 404.                                  *)
(***************************************************************************)
C8_MissingFilesLeaveBothEmpty ==
    LoadFails =>
        /\ devices = <<>>
        /\ savingsData = <<>>
        /\ loadPc \in {"start", "accessed", "readDevices", "returned"}
        /\ loadPc = "returned" => (listening \/ ENABLED Listen)
        /\ (req.kind = "devices" /\ res # NoResponse) =>
              res = [status |-> 200, body |-> [list |-> <<>>]]
        /\ (Served /\ req.q.deviceId # <<>> /\ req.q.startDateTime # NoParam
               /\ req.q.endDateTime # NoParam) =>
              res = ErrorResponse(404, "Device not found")

\* devices.csv is there with rows, device-saving.csv is not, and a complete
\* query has been answered
C8_Witness ==
    /\ fs.dir /\ fs.devicesCsv.ok /\ ~fs.savingsCsv.ok
    /\ fs.devicesCsv.rows # <<>>
    /\ listening
    /\ Served
    /\ req.q.deviceId = <<"1">>
    /\ req.q.startDateTime.fmt = "iso_naive"
    /\ req.q.endDateTime.fmt = "iso_naive"
    /\ res.status = 404

RowsOfQueriedId ==
    { i \in 1..Len(devices) : devices[i].id.k = "fin"
        /\ devices[i].id = ParseInt(req.q.deviceId) }

Minimum(S) == CHOOSE x \in S : \A y \in S : x <= y
Maximum(S) == CHOOSE x \in S : \A y \in S : x >= y

\* the served request was resolved from row i: the handler's device is that
\* row and, for a range that parses, the answer is the one computed with
\* start and end read in that row's timezone
ResolvedFromRow(i) ==
    LET start == MomentTz(req.q.startDateTime, devices[i].timezone)
        end == MomentTz(req.q.endDateTime, devices[i].timezone)
    IN  /\ device = devices[i]
        /\ (start.valid /\ end.valid) =>
              res = SavingsOk(req.q, devices[i], savingsData, start, end,
                              ZoneOffset[serverZone])

(***************************************************************************)
(* C10 (as stated).  With several device rows of the same id, the savings  *)
(* handler resolves the device, and so the timezone in which start and end *)
(* are read, from the last such row in load order.                         *)
(***************************************************************************)
C10_LastRowWins ==
    (Served /\ device # NoDevice) => ResolvedFromRow(Maximum(RowsOfQueriedId))

(***************************************************************************)
(* C10 (amended).  With several device rows of the same id, the savings    *)
(* handler resolves the device, and so the timezone in which start and end *)
(* are read, from the first such row in load order.                        *)
(***************************************************************************)
C10_FirstRowWins ==
    (Served /\ device # NoDevice) => ResolvedFromRow(Minimum(RowsOfQueriedId))

\* two rows of id 1 with different zones, and a 200 for id 1
C10_Witness ==
    /\ Answered200
    /\ Cardinality(RowsOfQueriedId) = 2
    /\ devices[1].timezone # devices[2].timezone
    /\ device = devices[1]

=============================================================================
